---------------------------- MODULE Spec2Model ----------------------------
(***************************************************************************)
(* Model of the SMS spam pipeline of crates/sms-data-clean (loading,      *)
(* normalisation, tokenisation, stop-word filtering, vocabulary building, *)
(* bag-of-words encoding), of the build step that bakes the vocabulary    *)
(* (crates/spam-classifier-sm/build.rs) and of the inference entry point  *)
(* (crates/spam-classifier-sm/src/lib.rs).                                *)
(*                                                                         *)
(* Text is a sequence of characters, each character a one-element string  *)
(* (VT, Grave and BadByte are atoms for U+000B, U+0060 and a byte that is *)
(* not valid UTF-8).  A token is a non-empty sequence of characters.  A    *)
(* HashMap is a function; the order in which a HashMap is iterated        *)
(* depends on the hash seed its RandomState drew.                         *)
(***************************************************************************)
EXTENDS Integers, Sequences, FiniteSets, TLC

VARIABLES
    file,        \* the source file: [exists, bytes]
    srcLines,    \* the lines the source file was laid out from (no terminators)
    pc,          \* position of the running program
    run,         \* 1 for the first run of the training pipeline, 2 for the second
    loaded,      \* what RawDataset::from_file returned
    raw,         \* RawDataset.data of the stage chain
    dataset,     \* Dataset {labels, data} of the stage chain
    output,      \* what to_smartcore returned: (DenseMatrix, labels, vocabulary)
    hashSeed,    \* the seed the process drew for the RandomState of its HashMaps
    panic,       \* the message of the panic that ended the run ("" when none)
    first,       \* token sequences and vocabulary of the first run
    modelRs,     \* the vocabulary as baked into model.rs (JSON entries in order)
    tokens,      \* bag_of_words: its tokens argument
    vocabulary,  \* bag_of_words: its vocabulary argument (shared and read-only)
    bow,         \* bag_of_words: what the call returned
    docs,        \* documents handed to the encoding workers
    enc,         \* per document, the encoding call in progress
    record,      \* map: the bytes of record.value
    x            \* map: the feature vector handed to the model

vars == <<file, srcLines, pc, run, loaded, raw, dataset, output, hashSeed, panic,
          first, modelRs, tokens, vocabulary, bow, docs, enc, record, x>>

pipeVars == <<file, srcLines, run, loaded, raw, dataset, output, hashSeed, panic,
              first, modelRs>>
bowVars == <<tokens, vocabulary, bow>>
parVars == <<docs, enc>>
mapVars == <<record, x>>

-----------------------------------------------------------------------------
(* Bounds of the model.                                                    *)

\* lines of a source file
MaxLines == 2
\* hash seeds a RandomState can draw: 0..MaxSeed
MaxSeed == 1
\* tokens of a bag_of_words argument
MaxTokens == 3
\* largest index of an externally supplied token-to-index mapping
MaxIndex == 2
\* records of a directly constructed Dataset
MaxRecords == 2
\* tokens of one record of a directly constructed Dataset
MaxDocTokens == 2
\* characters of a message handed to the inference entry point
MaxMsgLen == 4

-----------------------------------------------------------------------------
(* Characters.                                                             *)

TAB == "\t"
LF == "\n"
CR == "\r"
FF == "\f"
VT == "VT"
BadByte == "xFF"
Grave == "U+0060"

UpperCase ==
    <<"A","B","C","D","E","F","G","H","I","J","K","L","M",
      "N","O","P","Q","R","S","T","U","V","W","X","Y","Z">>
LowerCase ==
    <<"a","b","c","d","e","f","g","h","i","j","k","l","m",
      "n","o","p","q","r","s","t","u","v","w","x","y","z">>

\* char::to_lowercase on the ASCII range
ToLowercaseChar(c) ==
    IF \E i \in 1..Len(UpperCase) : UpperCase[i] = c
    THEN LowerCase[CHOOSE i \in 1..Len(UpperCase) : UpperCase[i] = c]
    ELSE c

\* char::is_ascii_punctuation
AsciiPunctuation ==
    { "!", "\"", "#", "$", "%", "&", "'", "(", ")", "*", "+", ",", "-", ".", "/",
      ":", ";", "<", "=", ">", "?", "@", "[", "\\", "]", "^", "_", Grave, "{", "|",
      "}", "~" }

\* char::is_whitespace on the ASCII range (str::split_whitespace)
Whitespace == { " ", TAB, LF, VT, FF, CR }

\* u8::is_ascii_whitespace (str::split_ascii_whitespace): U+000B is not in it
AsciiWhitespace == { " ", TAB, LF, FF, CR }

Range(s) == { s[i] : i \in 1..Len(s) }

-----------------------------------------------------------------------------
(* Text operations.                                                        *)

\* String::to_lowercase
ToLowercase(s) == [i \in 1..Len(s) |-> ToLowercaseChar(s[i])]

\* .chars().filter(|c| !c.is_ascii_punctuation()).collect()
StripPunctuation(s) ==
    LET Keep(c) == c \notin AsciiPunctuation
    IN  SelectSeq(s, Keep)

RECURSIVE SplitRuns(_, _, _, _)
SplitRuns(s, ws, cur, acc) ==
    IF s = <<>>
    THEN IF cur = <<>> THEN acc ELSE Append(acc, cur)
    ELSE IF Head(s) \in ws
         THEN SplitRuns(Tail(s), ws, <<>>, IF cur = <<>> THEN acc ELSE Append(acc, cur))
         ELSE SplitRuns(Tail(s), ws, Append(cur, Head(s)), acc)

\* str::split_whitespace
SplitWhitespace(s) == SplitRuns(s, Whitespace, <<>>, <<>>)

\* str::split_ascii_whitespace
SplitAsciiWhitespace(s) == SplitRuns(s, AsciiWhitespace, <<>>, <<>>)

\* str::split_once(delim): the text before and after the first delim
SplitOnce(s, delim) ==
    IF \E i \in 1..Len(s) : s[i] = delim
    THEN LET k == CHOOSE i \in 1..Len(s) :
                      s[i] = delim /\ \A j \in 1..(i - 1) : s[j] # delim
         IN  [found |-> TRUE, before |-> SubSeq(s, 1, k - 1),
              after |-> SubSeq(s, k + 1, Len(s))]
    ELSE [found |-> FALSE, before |-> <<>>, after |-> <<>>]

\* BufRead::lines over the bytes of the file: split at LF, drop the LF and a CR
\* before it; bytes after the last LF are a line when there are any
RECURSIVE ReadLines(_, _, _)
ReadLines(bytes, cur, acc) ==
    IF bytes = <<>>
    THEN IF cur = <<>> THEN acc ELSE Append(acc, cur)
    ELSE IF Head(bytes) = LF
         THEN LET line == IF cur # <<>> /\ cur[Len(cur)] = CR
                          THEN SubSeq(cur, 1, Len(cur) - 1)
                          ELSE cur
              IN  ReadLines(Tail(bytes), <<>>, Append(acc, line))
         ELSE ReadLines(Tail(bytes), Append(cur, Head(bytes)), acc)

Lines(bytes) == ReadLines(bytes, <<>>, <<>>)

-----------------------------------------------------------------------------
(* Label and from_file.                                                    *)

Ham == "Ham"
Spam == "Spam"

HamStr == <<"h","a","m">>
SpamStr == <<"s","p","a","m">>

\* Label::from_str
LabelFromStr(s) ==
    IF s = HamStr THEN [ok |-> TRUE, label |-> Ham]
    ELSE IF s = SpamStr THEN [ok |-> TRUE, label |-> Spam]
    ELSE [ok |-> FALSE, label |-> Ham]

IoOk(data) == [ok |-> TRUE, data |-> data, kind |-> "", msg |-> ""]
IoErr(kind, msg) == [ok |-> FALSE, data |-> <<>>, kind |-> kind, msg |-> msg]

\* str::rsplit_once(delim): the text before and after the last delim
RsplitOnce(s, delim) ==
    IF \E i \in 1..Len(s) : s[i] = delim
    THEN LET k == CHOOSE i \in 1..Len(s) :
                      s[i] = delim /\ \A j \in (i + 1)..Len(s) : s[j] # delim
         IN  [found |-> TRUE, before |-> SubSeq(s, 1, k - 1),
              after |-> SubSeq(s, k + 1, Len(s))]
    ELSE [found |-> FALSE, before |-> <<>>, after |-> <<>>]

\* (mutant) the line split at its last tab
ParseLineLastTab(line) ==
    IF BadByte \in Range(line)
    THEN IoErr("InvalidData", "stream did not contain valid UTF-8")
    ELSE LET parts == RsplitOnce(line, TAB)
         IN  IF ~parts.found
             THEN IoErr("Other", "Missing delimeter")
             ELSE LET label == LabelFromStr(parts.before)
                  IN  IF ~label.ok
                      THEN IoErr("Other", "Invalid label")
                      ELSE IoOk([label |-> label.label, sms |-> parts.after])

\* the closure of from_file: one line to one RawData, or the error
ParseLine(line) ==
    IF BadByte \in Range(line)
    THEN IoErr("InvalidData", "stream did not contain valid UTF-8")
    ELSE LET parts == SplitOnce(line, TAB)
         IN  IF ~parts.found
             THEN IoErr("Other", "Missing delimeter")
             ELSE LET label == LabelFromStr(parts.before)
                  IN  IF ~label.ok
                      THEN IoErr("Other", "Invalid label")
                      ELSE IoOk([label |-> label.label, sms |-> parts.after])

\* .collect::<Result<Vec<_>, _>>(): the rows in order, or the first error
RECURSIVE CollectRows(_, _)
CollectRows(lines, acc) ==
    IF lines = <<>>
    THEN IoOk(acc)
    ELSE LET row == ParseLine(Head(lines))
         IN  IF row.ok THEN CollectRows(Tail(lines), Append(acc, row.data)) ELSE row

\* RawDataset::from_file
FromFileResult(f) ==
    IF ~f.exists
    THEN IoErr("NotFound", "No such file or directory")
    ELSE CollectRows(Lines(f.bytes), <<>>)

-----------------------------------------------------------------------------
(* The stage chain.                                                        *)

\* RawData::lowercase
RowLowercase(row) == [label |-> row.label, sms |-> ToLowercase(row.sms)]

\* RawData::without_punctuaction
RowWithoutPunctuaction(row) == [label |-> row.label, sms |-> StripPunctuation(row.sms)]

\* RawDataset::lowercase
DatasetLowercase(data) == [i \in 1..Len(data) |-> RowLowercase(data[i])]

\* RawDataset::without_punctuaction
DatasetWithoutPunctuaction(data) ==
    [i \in 1..Len(data) |-> RowWithoutPunctuaction(data[i])]

\* RawDataset::tokenize: map to (label, tokens) and unzip
DatasetTokenize(data) ==
    [labels |-> [i \in 1..Len(data) |-> data[i].label],
     data |-> [i \in 1..Len(data) |-> SplitWhitespace(data[i].sms)]]

\* NLTK::stopwords(Language::English)
NltkEnglish ==
    { <<"i">>, <<"m","e">>, <<"m","y">>, <<"m","y","s","e","l","f">>, <<"w","e">>,
      <<"o","u","r">>, <<"o","u","r","s">>, <<"o","u","r","s","e","l","v","e","s">>,
      <<"y","o","u">>, <<"y","o","u","r">>, <<"y","o","u","r","s">>,
      <<"y","o","u","r","s","e","l","f">>, <<"y","o","u","r","s","e","l","v","e","s">>,
      <<"h","e">>, <<"h","i","m">>, <<"h","i","s">>, <<"h","i","m","s","e","l","f">>,
      <<"s","h","e">>, <<"h","e","r">>, <<"h","e","r","s">>, <<"h","e","r","s","e","l","f">>,
      <<"i","t">>, <<"i","t","s">>, <<"i","t","s","e","l","f">>, <<"t","h","e","y">>,
      <<"t","h","e","m">>, <<"t","h","e","i","r">>, <<"t","h","e","i","r","s">>,
      <<"t","h","e","m","s","e","l","v","e","s">>, <<"w","h","a","t">>,
      <<"w","h","i","c","h">>, <<"w","h","o">>, <<"w","h","o","m">>, <<"t","h","i","s">>,
      <<"t","h","a","t">>, <<"t","h","e","s","e">>, <<"t","h","o","s","e">>, <<"a","m">>,
      <<"i","s">>, <<"a","r","e">>, <<"w","a","s">>, <<"w","e","r","e">>, <<"b","e">>,
      <<"b","e","e","n">>, <<"b","e","i","n","g">>, <<"h","a","v","e">>, <<"h","a","s">>,
      <<"h","a","d">>, <<"h","a","v","i","n","g">>, <<"d","o">>, <<"d","o","e","s">>,
      <<"d","i","d">>, <<"d","o","i","n","g">>, <<"a">>, <<"a","n">>, <<"t","h","e">>,
      <<"a","n","d">>, <<"b","u","t">>, <<"i","f">>, <<"o","r">>,
      <<"b","e","c","a","u","s","e">>, <<"a","s">>, <<"u","n","t","i","l">>,
      <<"w","h","i","l","e">>, <<"o","f">>, <<"a","t">>, <<"b","y">>, <<"f","o","r">>,
      <<"w","i","t","h">>, <<"a","b","o","u","t">>, <<"a","g","a","i","n","s","t">>,
      <<"b","e","t","w","e","e","n">>, <<"i","n","t","o">>, <<"t","h","r","o","u","g","h">>,
      <<"d","u","r","i","n","g">>, <<"b","e","f","o","r","e">>, <<"a","f","t","e","r">>,
      <<"a","b","o","v","e">>, <<"b","e","l","o","w">>, <<"t","o">>, <<"f","r","o","m">>,
      <<"u","p">>, <<"d","o","w","n">>, <<"i","n">>, <<"o","u","t">>, <<"o","n">>,
      <<"o","f","f">>, <<"o","v","e","r">>, <<"u","n","d","e","r">>, <<"a","g","a","i","n">>,
      <<"f","u","r","t","h","e","r">>, <<"t","h","e","n">>, <<"o","n","c","e">>,
      <<"h","e","r","e">>, <<"t","h","e","r","e">>, <<"w","h","e","n">>,
      <<"w","h","e","r","e">>, <<"w","h","y">>, <<"h","o","w">>, <<"a","l","l">>,
      <<"a","n","y">>, <<"b","o","t","h">>, <<"e","a","c","h">>, <<"f","e","w">>,
      <<"m","o","r","e">>, <<"m","o","s","t">>, <<"o","t","h","e","r">>, <<"s","o","m","e">>,
      <<"s","u","c","h">>, <<"n","o">>, <<"n","o","r">>, <<"n","o","t">>, <<"o","n","l","y">>,
      <<"o","w","n">>, <<"s","a","m","e">>, <<"s","o">>, <<"t","h","a","n">>, <<"t","o","o">>,
      <<"v","e","r","y">>, <<"s">>, <<"t">>, <<"c","a","n">>, <<"w","i","l","l">>,
      <<"j","u","s","t">>, <<"d","o","n">>, <<"s","h","o","u","l","d">>, <<"n","o","w">> }

\* the filter of Dataset::stop_words on one row
FilterStopWords(toks) ==
    LET Keep(p) == p \notin NltkEnglish
    IN  SelectSeq(toks, Keep)

\* (mutant) rows left without tokens are dropped
DatasetStopWordsDropEmpty(ds) ==
    LET NonEmpty(row) == row # <<>>
    IN  [labels |-> ds.labels,
         data |-> SelectSeq([i \in 1..Len(ds.data) |-> FilterStopWords(ds.data[i])],
                            NonEmpty)]

\* (mutant) the filter not applied
DatasetStopWordsSkipped(ds) == ds

\* Dataset::stop_words
DatasetStopWords(ds) ==
    [labels |-> ds.labels,
     data |-> [i \in 1..Len(ds.data) |-> FilterStopWords(ds.data[i])]]

-----------------------------------------------------------------------------
(* HashMap, bag_of_words, DenseMatrix, to_smartcore.                       *)

EmptyMap == <<>>

RECURSIVE SetToSeq(_)
SetToSeq(S) ==
    IF S = {} THEN <<>>
    ELSE LET e == CHOOSE e \in S : TRUE IN <<e>> \o SetToSeq(S \ {e})

Rotate(s, k) ==
    IF s = <<>> THEN s
    ELSE [i \in 1..Len(s) |-> s[((i - 1 + k) % Len(s)) + 1]]

\* the order in which a HashMap with these keys and this seed is iterated
HashOrder(keys, seed) == Rotate(SetToSeq(keys), seed)

Zeros(n) == [i \in 1..n |-> 0]

\* (mutant) the lookup done through the entry API: a token that is no key is
\* inserted at the next index
LookupOrInsert(voc, token) ==
    [found |-> TRUE,
     index |-> IF token \in DOMAIN voc THEN voc[token] ELSE Cardinality(DOMAIN voc),
     vocabulary |-> IF token \in DOMAIN voc THEN voc
                    ELSE (token :> Cardinality(DOMAIN voc)) @@ voc]

\* vocabulary.get(&token) on the shared &HashMap: the index when the token is a
\* key, and the map as the call leaves it
Lookup(voc, token) ==
    [found |-> token \in DOMAIN voc,
     index |-> IF token \in DOMAIN voc THEN voc[token] ELSE 0,
     vocabulary |-> voc]

\* (mutant) the element set to one: a presence flag
SetElementOne(m, index) ==
    IF index < Len(m)
    THEN [ok |-> TRUE, m |-> [m EXCEPT ![index + 1] = 1]]
    ELSE [ok |-> FALSE, m |-> m]

\* m.add_element_mut(index, T::one()): indexing past the end panics
AddElementMut(m, index) ==
    IF index < Len(m)
    THEN [ok |-> TRUE, m |-> [m EXCEPT ![index + 1] = @ + 1]]
    ELSE [ok |-> FALSE, m |-> m]

\* one turn of the loop of bag_of_words
BowStep(st, token, voc) ==
    IF ~st.ok
    THEN st
    ELSE LET got == Lookup(voc, token)
         IN  IF got.found THEN AddElementMut(st.m, got.index) ELSE st

\* (mutant) a vector with the capacity reserved and no element
BowStartEmpty(voc) == [ok |-> TRUE, m |-> <<>>]

\* let mut m = Vec::zeros(vocabulary.len())
BowStart(voc) == [ok |-> TRUE, m |-> Zeros(Cardinality(DOMAIN voc))]

RECURSIVE BowLoop(_, _, _)
BowLoop(st, toks, voc) ==
    IF toks = <<>> THEN st ELSE BowLoop(BowStep(st, Head(toks), voc), Tail(toks), voc)

\* bag_of_words: [ok |-> FALSE] is a panic
BagOfWords(toks, voc) == BowLoop(BowStart(voc), toks, voc)

\* DenseMatrix::from_2d_vec: column-major values; no first row is a panic
From2dVec(rows) ==
    IF rows = <<>>
    THEN [ok |-> FALSE, nrows |-> 0, ncols |-> 0, values |-> <<>>]
    ELSE LET nrows == Len(rows)
             ncols == Len(rows[1])
         IN  [ok |-> TRUE, nrows |-> nrows, ncols |-> ncols,
              values |-> [k \in 1..(nrows * ncols) |->
                             rows[((k - 1) % nrows) + 1][((k - 1) \div nrows) + 1]]]

\* DenseMatrix::from_row: a matrix of one row
FromRow(v) == [ok |-> TRUE, nrows |-> 1, ncols |-> Len(v), values |-> v]

\* row i (from 1) and the element at row i, column j (from 1) of a DenseMatrix
MatrixGet(m, i, j) == m.values[(j - 1) * m.nrows + i]
MatrixRow(m, i) == [j \in 1..m.ncols |-> MatrixGet(m, i, j)]

\* (mutant) the two labels swapped
LabelToNumberSwapped(label) == IF label = Spam THEN 0 ELSE 1

\* the label map of to_smartcore
LabelToNumber(label) == IF label = Spam THEN 1 ELSE 0

RECURSIVE FlatMap(_)
FlatMap(data) == IF data = <<>> THEN <<>> ELSE Head(data) \o FlatMap(Tail(data))

\* (mutant) the words scanned from the last to the first
CorpusWordsReversed(data) ==
    LET words == FlatMap(data)
    IN  [i \in 1..Len(words) |-> words[Len(words) + 1 - i]]

\* (mutant) the words collected into a HashSet first and scanned in its order
CorpusWordsHashed(data) == HashOrder(Range(FlatMap(data)), hashSeed)

\* self.data.clone().into_iter().flat_map(|data| data.tokens)
CorpusWords(data) == FlatMap(data)

\* the body of the vocabulary loop: insert at the counter when the entry is vacant
EntryInsert(st, word) ==
    IF word \notin DOMAIN st.vocabulary
    THEN [vocabulary |-> (word :> st.index) @@ st.vocabulary, index |-> st.index + 1]
    ELSE st

RECURSIVE VocabularyLoop(_, _)
VocabularyLoop(st, words) ==
    IF words = <<>> THEN st ELSE VocabularyLoop(EntryInsert(st, Head(words)), Tail(words))

\* the vocabulary loop of to_smartcore
BuildVocabulary(data) ==
    VocabularyLoop([vocabulary |-> EmptyMap, index |-> 0], CorpusWords(data)).vocabulary

\* the rows of to_smartcore: bag_of_words of every record, in order
EncodeRows(data, voc) == [i \in 1..Len(data) |-> BagOfWords(data[i], voc)]

NoMatrix == [ok |-> FALSE, nrows |-> 0, ncols |-> 0, values |-> <<>>]
NoOutput == [ok |-> FALSE, x |-> NoMatrix, y |-> <<>>, vocabulary |-> EmptyMap, panic |-> ""]

\* Dataset::to_smartcore
ToSmartcore(ds) ==
    LET labels == [i \in 1..Len(ds.labels) |-> LabelToNumber(ds.labels[i])]
        voc == BuildVocabulary(ds.data)
        rows == EncodeRows(ds.data, voc)
    IN  IF \E i \in 1..Len(rows) : ~rows[i].ok
        THEN [NoOutput EXCEPT !.panic = "index out of bounds"]
        ELSE LET data_m == From2dVec([i \in 1..Len(rows) |-> rows[i].m])
             IN  IF ~data_m.ok
                 THEN [NoOutput EXCEPT !.panic = "Cannot create 2d matrix from an empty vector"]
                 ELSE [ok |-> TRUE, x |-> data_m, y |-> labels, vocabulary |-> voc,
                       panic |-> ""]

-----------------------------------------------------------------------------
(* The baked vocabulary: build.rs writes it, model::vocabulary() reads it. *)

\* serde_json::to_string(&vocabulary): the entries in iteration order
SerdeToString(voc, seed) ==
    LET keys == HashOrder(DOMAIN voc, seed)
    IN  [i \in 1..Len(keys) |-> <<keys[i], voc[keys[i]]>>]

RECURSIVE SerdeLoop(_, _)
SerdeLoop(json, map) ==
    IF json = <<>> THEN map
    ELSE SerdeLoop(Tail(json), (Head(json)[1] :> Head(json)[2]) @@ map)

\* serde_json::from_str of model::vocabulary()
SerdeFromStr(json) == SerdeLoop(json, EmptyMap)

-----------------------------------------------------------------------------
(* The training run: create_smartcore_input, stage by stage, then build.rs *)
(* baking the vocabulary; the build can be run a second time on the same   *)
(* file.                                                                   *)

\* lines a source file is laid out from: well-formed ones ...
GoodLines ==
    { <<"h","a","m","\t","H","e","l","l","o",","," ","W","o","r","l","d","!","!">>,
      <<"s","p","a","m","\t","W","I","N"," ","c","a","s","h"," ","N","O","W","!","!","!">>,
      <<"h","a","m","\t","A",","," ","t","h","e","!">>,
      <<"s","p","a","m","\t","w","i","n"," ","w","i","n","\t","h","e","l","l","o">>,
      <<"h","a","m","\t">> }

\* ... and ones from_file rejects: no tab, a label that is neither ham nor spam,
\* an empty line, bytes that are not UTF-8
BadLines ==
    { <<"h","a","m"," ","H","e","l","l","o">>,
      <<"H","a","m","\t","h","e","l","l","o">>,
      <<>>,
      <<"s","p","a","m","\t",BadByte>> }

SampleLines == GoodLines \cup BadLines

SeqsUpTo(S, n) == UNION { [1..k -> S] : k \in 0..n }

\* the bytes of a file of these lines, each ended by term; the last line is
\* ended only when closed
RECURSIVE Layout(_, _, _)
Layout(lines, term, closed) ==
    IF lines = <<>> THEN <<>>
    ELSE IF Len(lines) = 1 /\ ~closed THEN Head(lines)
    ELSE Head(lines) \o term \o Layout(Tail(lines), term, closed)

NoResult == IoErr("", "")
NoDataset == [labels |-> <<>>, data |-> <<>>]
NoFirst == [tokens |-> <<>>, vocabulary |-> EmptyMap, hashSeed |-> 0]
NoBow == [ok |-> FALSE, m |-> <<>>]

IdlePipe ==
    /\ file = [exists |-> FALSE, bytes |-> <<>>]
    /\ srcLines = <<>>
    /\ run = 1
    /\ loaded = NoResult
    /\ raw = <<>>
    /\ dataset = NoDataset
    /\ output = NoOutput
    /\ hashSeed = 0
    /\ panic = ""
    /\ first = NoFirst
    /\ modelRs = <<>>

IdleBow == tokens = <<>> /\ vocabulary = EmptyMap /\ bow = NoBow
IdlePar == docs = <<>> /\ enc = <<>>
IdleMap == record = <<>> /\ x = NoBow

Init ==
    /\ pc = "start"
    /\ \/ /\ file = [exists |-> FALSE, bytes |-> <<>>]
          /\ srcLines = <<>>
       \/ \E lines \in SeqsUpTo(SampleLines, MaxLines), term \in { <<LF>>, <<CR, LF>> },
             closed \in BOOLEAN :
            /\ lines = <<>> => (closed /\ term = <<LF>>)
            /\ (lines # <<>> /\ lines[Len(lines)] = <<>>) => closed
            /\ srcLines = lines
            /\ file = [exists |-> TRUE, bytes |-> Layout(lines, term, closed)]
    /\ run = 1
    /\ loaded = NoResult
    /\ raw = <<>>
    /\ dataset = NoDataset
    /\ output = NoOutput
    /\ hashSeed \in 0..MaxSeed
    /\ panic = ""
    /\ first = NoFirst
    /\ modelRs = <<>>
    /\ IdleBow /\ IdlePar /\ IdleMap

\* RawDataset::from_file(path)
FromFile ==
    /\ pc = "start"
    /\ loaded' = FromFileResult(file)
    /\ pc' = "loaded"
    /\ UNCHANGED <<file, srcLines, run, raw, dataset, output, hashSeed, panic, first,
                   modelRs, bowVars, parVars, mapVars>>

\* .expect("creation failed")
Expect ==
    /\ pc = "loaded"
    /\ IF loaded.ok
       THEN raw' = loaded.data /\ pc' = "raw" /\ panic' = panic
       ELSE raw' = raw /\ pc' = "panicked" /\ panic' = "creation failed"
    /\ UNCHANGED <<file, srcLines, run, loaded, dataset, output, hashSeed, first,
                   modelRs, bowVars, parVars, mapVars>>

\* .lowercase()
Lowercase ==
    /\ pc = "raw"
    /\ raw' = DatasetLowercase(raw)
    /\ pc' = "lowercased"
    /\ UNCHANGED <<file, srcLines, run, loaded, dataset, output, hashSeed, panic, first,
                   modelRs, bowVars, parVars, mapVars>>

\* .without_punctuaction()
WithoutPunctuaction ==
    /\ pc = "lowercased"
    /\ raw' = DatasetWithoutPunctuaction(raw)
    /\ pc' = "stripped"
    /\ UNCHANGED <<file, srcLines, run, loaded, dataset, output, hashSeed, panic, first,
                   modelRs, bowVars, parVars, mapVars>>

\* .tokenize()
Tokenize ==
    /\ pc = "stripped"
    /\ dataset' = DatasetTokenize(raw)
    /\ pc' = "tokenized"
    /\ UNCHANGED <<file, srcLines, run, loaded, raw, output, hashSeed, panic, first,
                   modelRs, bowVars, parVars, mapVars>>

\* .stop_words()
StopWords ==
    /\ pc = "tokenized"
    /\ dataset' = DatasetStopWords(dataset)
    /\ pc' = "filtered"
    /\ UNCHANGED <<file, srcLines, run, loaded, raw, output, hashSeed, panic, first,
                   modelRs, bowVars, parVars, mapVars>>

\* .to_smartcore()
ToSmartcoreCall ==
    /\ pc = "filtered"
    /\ LET out == ToSmartcore(dataset)
       IN  IF out.ok
           THEN output' = out /\ pc' = "done" /\ panic' = panic
           ELSE output' = output /\ pc' = "panicked" /\ panic' = out.panic
    /\ UNCHANGED <<file, srcLines, run, loaded, raw, dataset, hashSeed, first, modelRs,
                   bowVars, parVars, mapVars>>

\* build.rs: the vocabulary serialized into model.rs
Bake ==
    /\ pc = "done"
    /\ modelRs' = SerdeToString(output.vocabulary, hashSeed)
    /\ pc' = "baked"
    /\ UNCHANGED <<file, srcLines, run, loaded, raw, dataset, output, hashSeed, panic,
                   first, bowVars, parVars, mapVars>>

\* the build is run again on the same file, in a process with its own hash seed
Rerun ==
    /\ pc = "baked"
    /\ run = 1
    /\ first' = [tokens |-> dataset.data, vocabulary |-> output.vocabulary,
                 hashSeed |-> hashSeed]
    /\ hashSeed' \in 0..MaxSeed
    /\ run' = 2
    /\ pc' = "start"
    /\ loaded' = NoResult
    /\ raw' = <<>>
    /\ dataset' = NoDataset
    /\ output' = NoOutput
    /\ UNCHANGED <<file, srcLines, panic, modelRs, bowVars, parVars, mapVars>>

Next ==
    \/ FromFile
    \/ Expect
    \/ Lowercase
    \/ WithoutPunctuaction
    \/ Tokenize
    \/ StopWords
    \/ ToSmartcoreCall
    \/ Bake
    \/ Rerun

Spec == Init /\ [][Next]_vars

-----------------------------------------------------------------------------
(* to_smartcore on a Dataset built directly (its fields are public).       *)

\* the tokens of directly built datasets and documents
SomeTokens == { <<"b">>, <<"c">>, <<"a">> }

Docs(S, n) == SeqsUpTo(S, n)

LabelAt(i) == IF i % 2 = 1 THEN Ham ELSE Spam

InitData ==
    /\ pc = "filtered"
    /\ \E data \in SeqsUpTo(Docs(SomeTokens, MaxDocTokens), MaxRecords) :
          dataset = [labels |-> [i \in 1..Len(data) |-> LabelAt(i)], data |-> data]
    /\ file = [exists |-> FALSE, bytes |-> <<>>]
    /\ srcLines = <<>>
    /\ run = 1
    /\ loaded = NoResult
    /\ raw = <<>>
    /\ output = NoOutput
    /\ hashSeed \in 0..MaxSeed
    /\ panic = ""
    /\ first = NoFirst
    /\ modelRs = <<>>
    /\ IdleBow /\ IdlePar /\ IdleMap

NextData == ToSmartcoreCall \/ Bake

SpecData == InitData /\ [][NextData]_vars

-----------------------------------------------------------------------------
(* bag_of_words called with any tokens and any token-to-index mapping.     *)

\* every mapping from a set of tokens to indices up to MaxIndex
Mappings == UNION { [keys -> 0..MaxIndex] : keys \in SUBSET SomeTokens }

InitBow ==
    /\ pc = "call"
    /\ tokens \in SeqsUpTo(SomeTokens, MaxTokens)
    /\ vocabulary \in Mappings
    /\ bow = NoBow
    /\ IdlePipe /\ IdlePar /\ IdleMap

\* bag_of_words(tokens, &vocabulary)
BagOfWordsCall ==
    /\ pc = "call"
    /\ LET m == BagOfWords(tokens, vocabulary)
       IN  IF m.ok
           THEN bow' = m /\ pc' = "returned"
           ELSE bow' = bow /\ pc' = "panicked"
    /\ UNCHANGED <<tokens, vocabulary, pipeVars, parVars, mapVars>>

NextBow == BagOfWordsCall

SpecBow == InitBow /\ [][NextBow]_vars

-----------------------------------------------------------------------------
(* Documents encoded by workers that share the frozen vocabulary: each     *)
(* worker runs bag_of_words on its document, one loop turn per step, and   *)
(* the steps of the workers interleave in any order.                       *)

Workers == { 1, 2 }

IdleCall == [state |-> "idle", pos |-> 1, st |-> NoBow]

InitPar ==
    /\ pc = "encoding"
    /\ \E train \in Docs(SomeTokens, MaxDocTokens) :
          /\ vocabulary = BuildVocabulary(<<train>>)
          /\ output = [NoOutput EXCEPT !.vocabulary = BuildVocabulary(<<train>>)]
    /\ docs \in [Workers -> Docs(SomeTokens, MaxDocTokens)]
    /\ enc = [w \in Workers |-> IdleCall]
    /\ file = [exists |-> FALSE, bytes |-> <<>>]
    /\ srcLines = <<>>
    /\ run = 1
    /\ loaded = NoResult
    /\ raw = <<>>
    /\ dataset = NoDataset
    /\ hashSeed = 0
    /\ panic = ""
    /\ first = NoFirst
    /\ modelRs = <<>>
    /\ tokens = <<>>
    /\ bow = NoBow
    /\ IdleMap

\* worker w enters bag_of_words: the zero vector
EncodeStart(w) ==
    /\ pc = "encoding"
    /\ enc[w].state = "idle"
    /\ enc' = [enc EXCEPT ![w] = [state |-> "running", pos |-> 1,
                                  st |-> BowStart(vocabulary)]]
    /\ UNCHANGED <<pc, vocabulary, docs, tokens, bow, pipeVars, mapVars>>

\* worker w runs one turn of the loop, or returns when its tokens are used up
EncodeStep(w) ==
    /\ pc = "encoding"
    /\ enc[w].state = "running"
    /\ IF enc[w].pos > Len(docs[w])
       THEN /\ enc' = [enc EXCEPT ![w].state = "returned"]
            /\ vocabulary' = vocabulary
       ELSE LET token == docs[w][enc[w].pos]
            IN  /\ enc' = [enc EXCEPT ![w].pos = @ + 1,
                                      ![w].st = BowStep(@, token, vocabulary)]
                /\ vocabulary' = Lookup(vocabulary, token).vocabulary
    /\ UNCHANGED <<pc, docs, tokens, bow, pipeVars, mapVars>>

NextPar == \E w \in Workers : EncodeStart(w) \/ EncodeStep(w)

SpecPar == InitPar /\ [][NextPar]_vars

-----------------------------------------------------------------------------
(* Inference: map on one record, against the vocabulary a build baked.     *)

\* RawDataset::from_file ... stop_words on the lines of a file
TrainingDataset(lines) ==
    DatasetStopWords(DatasetTokenize(DatasetWithoutPunctuaction(DatasetLowercase(
        CollectRows(lines, <<>>).data))))

\* the files the baked vocabularies were trained on
TrainFiles ==
    { << <<"h","a","m","\t","b"," ","a">> >>,
      << <<"s","p","a","m","\t","A","b"," ","a","!"," ","B">>,
         <<"h","a","m","\t","a","-","b"," ","b","a","."," ","b">> >>,
      << <<"h","a","m","\t","b","b"," ","a","a"," ","b","b">>,
         <<"s","p","a","m","\t","a"," ","A">> >> }

\* the characters of the messages handed to map
MsgChars == { "a", "b", "B", "!", " ", VT, BadByte }

InitMap ==
    /\ pc = "map"
    /\ \E lines \in TrainFiles, seed \in 0..MaxSeed :
          modelRs = SerdeToString(ToSmartcore(TrainingDataset(lines)).vocabulary, seed)
    /\ record \in SeqsUpTo(MsgChars, MaxMsgLen)
    /\ x = NoBow
    /\ file = [exists |-> FALSE, bytes |-> <<>>]
    /\ srcLines = <<>>
    /\ run = 1
    /\ loaded = NoResult
    /\ raw = <<>>
    /\ dataset = NoDataset
    /\ output = NoOutput
    /\ hashSeed = 0
    /\ panic = ""
    /\ first = NoFirst
    /\ IdleBow /\ IdlePar

\* the tokens map hands to bag_of_words
MapTokens(value) == SplitAsciiWhitespace(StripPunctuation(value))

\* map: the feature vector of record.value
MapCall ==
    /\ pc = "map"
    /\ IF BadByte \in Range(record)
       THEN x' = x /\ pc' = "error"
       ELSE LET m == BagOfWords(MapTokens(record), SerdeFromStr(modelRs))
            IN  IF m.ok
                THEN x' = m /\ pc' = "returned"
                ELSE x' = x /\ pc' = "panicked"
    /\ UNCHANGED <<record, pipeVars, bowVars, parVars>>

NextMap == MapCall

SpecMap == InitMap /\ [][NextMap]_vars

-----------------------------------------------------------------------------
(* Properties.                                                             *)

Count(toks, w) == Cardinality({ j \in 1..Len(toks) : toks[j] = w })

Sum(m) == LET RECURSIVE Add(_)
              Add(k) == IF k = 0 THEN 0 ELSE m[k] + Add(k - 1)
          IN  Add(Len(m))

\* the places <<record, token>> of a corpus, and the order in which it is scanned
Places(data) == UNION { { <<i, j>> : j \in 1..Len(data[i]) } : i \in 1..Len(data) }
Before(p, q) == p[1] < q[1] \/ (p[1] = q[1] /\ p[2] < q[2])
At(data, p) == data[p[1]][p[2]]

\* the place where token w occurs first in the corpus
FirstPlace(data, w) ==
    CHOOSE p \in Places(data) :
        /\ At(data, p) = w
        /\ \A q \in Places(data) : At(data, q) = w => ~Before(q, p)

\* the distinct tokens met before place p
SeenBefore(data, p) == { At(data, q) : q \in { r \in Places(data) : Before(r, p) } }

Dense(voc) ==
    /\ \A v, w \in DOMAIN voc : voc[v] = voc[w] => v = w
    /\ { voc[w] : w \in DOMAIN voc } = 0..(Cardinality(DOMAIN voc) - 1)

\* C1: the vocabulary to_smartcore returns has exactly the tokens of the corpus as
\* keys, the k-th distinct token met (records in row order, tokens in sequence
\* order) has index k-1, and the indices are the dense range 0..|vocabulary|-1.
C1_FirstOccurrenceOrder ==
    pc \in { "done", "baked" } =>
        LET voc == output.vocabulary
            data == dataset.data
        IN  /\ DOMAIN voc = { At(data, p) : p \in Places(data) }
            /\ \A w \in DOMAIN voc :
                  voc[w] = Cardinality(SeenBefore(data, FirstPlace(data, w)))
            /\ Dense(voc)

\* a corpus of two records with three distinct tokens, one of them met again in
\* the second record
C1_Witness ==
    /\ pc = "done"
    /\ Len(dataset.data) = 2
    /\ Cardinality(DOMAIN output.vocabulary) = 3
    /\ \E w \in DOMAIN output.vocabulary :
          Count(dataset.data[1], w) > 0 /\ Count(dataset.data[2], w) > 0

\* C2: for a dense vocabulary, element i of the vector bag_of_words returns is the
\* number of occurrences of the token with index i, and the elements add up to the
\* number of tokens that are keys of the vocabulary.
C2_TermFrequency ==
    (pc \in { "returned", "panicked" } /\ Dense(vocabulary)) =>
        /\ pc = "returned"
        /\ bow.ok
        /\ Len(bow.m) = Cardinality(DOMAIN vocabulary)
        /\ \A w \in DOMAIN vocabulary : bow.m[vocabulary[w] + 1] = Count(tokens, w)
        /\ Sum(bow.m) = Cardinality({ j \in 1..Len(tokens) : tokens[j] \in DOMAIN vocabulary })

\* a key of the vocabulary occurs twice and another token is no key
C2_Witness ==
    /\ pc = "returned"
    /\ Dense(vocabulary)
    /\ \E w \in DOMAIN vocabulary : Count(tokens, w) = 2 /\ bow.m[vocabulary[w] + 1] = 2
    /\ \E j \in 1..Len(tokens) : tokens[j] \notin DOMAIN vocabulary

InRange(voc) == \A w \in DOMAIN voc : voc[w] < Cardinality(DOMAIN voc)

\* C3 as claimed: bag_of_words returns, with a vector of length |vocabulary|, for
\* every token sequence and every token-to-index mapping.
C3_AlwaysSucceeds ==
    pc \in { "returned", "panicked" } =>
        /\ pc = "returned"
        /\ Len(bow.m) = Cardinality(DOMAIN vocabulary)

\* C3 amended: bag_of_words returns, with a vector of length |vocabulary|, for every
\* token sequence and every mapping whose indices are all below |vocabulary|; the
\* vector is all zero when no token is a key.
C3_SucceedsInRange ==
    (pc \in { "returned", "panicked" } /\ InRange(vocabulary)) =>
        /\ pc = "returned"
        /\ bow.ok
        /\ Len(bow.m) = Cardinality(DOMAIN vocabulary)
        /\ (\A j \in 1..Len(tokens) : tokens[j] \notin DOMAIN vocabulary)
              => bow.m = Zeros(Cardinality(DOMAIN vocabulary))

\* tokens, none of them a key, against a vocabulary of two keys
C3_Witness ==
    /\ pc = "returned"
    /\ InRange(vocabulary)
    /\ Cardinality(DOMAIN vocabulary) = 2
    /\ tokens # <<>>
    /\ \A j \in 1..Len(tokens) : tokens[j] \notin DOMAIN vocabulary
    /\ bow.m = <<0, 0>>

\* the lines of the file as laid out are all well-formed: a tab after ham or spam
WellFormedLine(line) ==
    /\ BadByte \notin Range(line)
    /\ \E k \in 1..Len(line) : line[k] = TAB /\ SubSeq(line, 1, k - 1) \in { HamStr, SpamStr }
WellFormed == file.exists /\ \A i \in 1..Len(srcLines) : WellFormedLine(srcLines[i])

LabelOfLine(line) == IF line[1] = "h" THEN Ham ELSE Spam
MessageOfLine(line) == SubSeq(line, (IF line[1] = "h" THEN 4 ELSE 5) + 1, Len(line))

\* C4 as claimed, the training pipeline: when the file does not load, the caller of
\* create_smartcore_input gets the failure as a returned error, so the run never
\* ends in a panic.
C4_LoadFailureReturned ==
    (pc \notin { "start", "loaded" } /\ file.exists /\ ~WellFormed) => pc # "panicked"

\* C5: from_file on a well-formed file returns one record per line, record i with
\* the label and the message (everything after the first tab) of line i.
C5_LoadKeepsEveryLine ==
    (pc # "start" /\ WellFormed) =>
        /\ loaded.ok
        /\ Len(loaded.data) = Len(srcLines)
        /\ \A i \in 1..Len(srcLines) :
              /\ loaded.data[i].label = LabelOfLine(srcLines[i])
              /\ loaded.data[i].sms = MessageOfLine(srcLines[i])

\* two different lines, the second one with a tab inside its message
C5_Witness ==
    /\ pc = "loaded"
    /\ WellFormed
    /\ Len(srcLines) = 2
    /\ srcLines[1] # srcLines[2]
    /\ TAB \in Range(loaded.data[2].sms)
    /\ loaded.data[1].label # loaded.data[2].label

\* C6: after every stage of the chain the number of records is the number of records
\* loaded, and position i still carries the label of loaded record i.
C6_RecordsStayAligned ==
    LET n == Len(loaded.data)
    IN  /\ pc \in { "raw", "lowercased", "stripped" } =>
              /\ Len(raw) = n
              /\ \A i \in 1..n : raw[i].label = loaded.data[i].label
        /\ pc \in { "tokenized", "filtered", "done", "baked" } =>
              /\ Len(dataset.labels) = n
              /\ Len(dataset.data) = n
              /\ \A i \in 1..n : dataset.labels[i] = loaded.data[i].label
        /\ pc \in { "done", "baked" } =>
              /\ output.x.nrows = n
              /\ Len(output.y) = n
              /\ \A i \in 1..n : (output.y[i] = 1) <=> (loaded.data[i].label = Spam)
              /\ \A i \in 1..n : output.y[i] \in { 0, 1 }
        /\ pc \in { "raw", "lowercased", "stripped", "tokenized", "filtered", "done",
                    "baked" } => n = Len(srcLines)

\* two records with different labels, the first left without tokens by the filter
C6_Witness ==
    /\ pc = "done"
    /\ Len(loaded.data) = 2
    /\ dataset.data[1] = <<>>
    /\ loaded.data[1].sms # <<>>
    /\ dataset.data[2] # <<>>
    /\ output.y = <<0, 1>>

Hello == <<"h","e","l","l","o">>
World == <<"w","o","r","l","d">>
Win == <<"w","i","n">>
Cash == <<"c","a","s","h">>

ScenarioLines ==
    << <<"h","a","m","\t","H","e","l","l","o",","," ","W","o","r","l","d","!","!">>,
       <<"s","p","a","m","\t","W","I","N"," ","c","a","s","h"," ","N","O","W","!","!","!">> >>

\* what C7 says of the triple to_smartcore returned
C7_Triple ==
    LET n == Len(dataset.data)
        voc == output.vocabulary
    IN  /\ pc # "panicked"
        /\ output.x.nrows = n
        /\ output.x.ncols = Cardinality(DOMAIN voc)
        /\ Len(output.x.values) = n * Cardinality(DOMAIN voc)
        /\ \A i \in 1..n : \A w \in DOMAIN voc :
              MatrixGet(output.x, i, voc[w] + 1) = Count(dataset.data[i], w)
        /\ \A i \in 1..n : Sum(MatrixRow(output.x, i)) = Len(dataset.data[i])
        /\ Len(output.y) = n
        /\ \A i \in 1..n : output.y[i] = IF dataset.labels[i] = Spam THEN 1 ELSE 0
        /\ srcLines = ScenarioLines =>
              /\ dataset.data = << <<Hello, World>>, <<Win, Cash>> >>
              /\ DOMAIN voc = { Hello, World, Win, Cash }
              /\ voc[Hello] = 0 /\ voc[World] = 1 /\ voc[Win] = 2 /\ voc[Cash] = 3
              /\ MatrixRow(output.x, 1) = <<1, 1, 0, 0>>
              /\ MatrixRow(output.x, 2) = <<0, 0, 1, 1>>
              /\ output.y = <<0, 1>>

\* to_smartcore was called: it returned or it panicked
ToSmartcoreCalled == loaded.ok /\ pc \in { "done", "baked", "panicked" }

C9_EncodingOrderIndependent ==
    /\ vocabulary = output.vocabulary
    /\ \A w \in Workers :
          enc[w].state = "returned" =>
              enc[w].st = BagOfWords(docs[w], output.vocabulary)

\* both workers returned; one document has a token that is no key, the other a key
C9_Witness ==
    /\ \A w \in Workers : enc[w].state = "returned"
    /\ \E j \in 1..Len(docs[1]) : docs[1][j] \notin DOMAIN output.vocabulary
    /\ \E j \in 1..Len(docs[2]) : docs[2][j] \in DOMAIN output.vocabulary
    /\ Sum(enc[2].st.m) >= 1

\* a message of ASCII characters, none uppercase, with spaces as its only whitespace
PlainMessage(msg) ==
    \A i \in 1..Len(msg) :
        /\ msg[i] # BadByte
        /\ msg[i] \notin Range(UpperCase)
        /\ msg[i] \in Whitespace => msg[i] = " "

\* the training path on one message, against a vocabulary
TrainingTokens(msg) ==
    FilterStopWords(SplitWhitespace(StripPunctuation(ToLowercase(msg))))

\* C10: on a plain message map computes the vector the training path computes, and
\* no stopword is a key of a baked vocabulary.
C10_InferenceMatchesTraining ==
    /\ \A i \in 1..Len(modelRs) : modelRs[i][1] \notin NltkEnglish
    /\ (pc \in { "returned", "panicked", "error" } /\ PlainMessage(record)) =>
          /\ pc = "returned"
          /\ x = BagOfWords(TrainingTokens(record), SerdeFromStr(modelRs))

\* a plain message with a stopword and a key of the vocabulary
C10_Witness ==
    /\ pc = "returned"
    /\ PlainMessage(record)
    /\ \E j \in 1..Len(MapTokens(record)) : MapTokens(record)[j] \in NltkEnglish
    /\ Sum(x.m) >= 1

=============================================================================
